---- MODULE Spec2Model ----
(***************************************************************************)
(* x_trader.py: daily price history is fetched (get_data, with an on-disk  *)
(* cache), prepared, decorated with indicators (pandas rolling windows)    *)
(* and replayed through backtrader's Cerebro with the MovingAverageCross   *)
(* strategy.  The replay is modelled bar by bar with the semantics the     *)
(* calls in the source select in backtrader: SimpleMovingAverage,          *)
(* CrossOver (with its NonZeroDifference memory), Strategy.buy()/sell()    *)
(* with the default FixedSize sizer (stake 1), Market orders that the      *)
(* default BackBroker (cash 10000, no commission) executes at the next     *)
(* bar's open, and the default Broker observer (cash and value per bar).   *)
(*                                                                         *)
(* The frame given to backtest carries open and close columns; an order   *)
(* created on a bar is priced by the open of the bar after it.             *)
(*                                                                         *)
(* Prices are integers; every average and every position price is an      *)
(* exact rational [n, d], so comparisons are the exact ones (for integer   *)
(* closes of this size the float computation of the code agrees).          *)
(***************************************************************************)
EXTENDS Integers, Sequences, FiniteSets, TLC

VARIABLES
    closes,     \* data.close fed to the replay so far (bar t is closes[t])
    switches,   \* how many times the close changed level (input budget)
    nzd,        \* CrossOver's NonZeroDifference line, last value
    crossover,  \* self.crossover[0] as next() reads it on the last bar
    pending,    \* the order submitted by next() and not yet executed
    cash,       \* broker cash
    size,       \* position size, signed (0 flat, >0 long, <0 short)
    price,      \* position price (rational), 0 when flat
    realized,   \* sum of the executed orders' pnl (rational)
    equity,     \* Broker observer: one [t, cash, size, value] per bar
    orders,     \* every order next() created: [t, side, psize]
    execs,      \* every execution: [t, side, price, psize, size, pprice,
                \* nprice, cash0, cash1, pnl] (p.. before, n.. after)
    now,        \* the clock get_data reads (ticks)
    cache,      \* the cache files: key -> [exists, mtime, data]
    requests,   \* network requests made so far
    calls,      \* every get_data call: [t, sym, key, status, outcome, df, net, wrote]
    runs,       \* every run of __main__: [t, call, stages, exc]
    frame,      \* the 'close' column given to calculate_technical_indicators
    frameSwitches, \* how many times that column changed level (input budget)
    ind,        \* the columns it added: [done, ma5, ma20, rsi]
    raw,        \* the close values of a frame given to prepare_data (NaN where missing)
    pipe,       \* what prepare_data -> calculate_technical_indicators made of it
    opens,      \* data.open fed so far, where the run keeps it (bar t is opens[t])
    first,      \* the bars and the logs of the run before the current one
    callers     \* concurrent callers of get_data: caller -> [pc, sym, key, found
                \* (os.path.exists at the check), missed (no fresh file at the
                \* check), df, outcome]

replayVars == <<closes, switches, nzd, crossover, pending, cash, size, price,
                realized, equity, orders, execs>>
feedVars == <<now, cache, requests, calls, runs>>

indVars == <<frame, frameSwitches, ind>>
pipeVars == <<raw, pipe>>
twinVars == <<opens, first>>
raceVars == <<callers>>

vars == <<replayVars, feedVars, indVars, pipeVars, twinVars, raceVars>>

-----------------------------------------------------------------------------
(* Bounds of the model *)

MaxBars == 23
MaxSwitches == 3
BrokerBars == 4
MaxTime == 4
TicksPerDay == 2
MaxCalls == 3
IndBars == 21
IndSwitches == 2
PipeBars == 6
TwinBars == 22
TwinSwitches == 2

Prices == {10, 20}
Opens == {15, 20}

-----------------------------------------------------------------------------
(* Exact rationals *)

RECURSIVE GCD(_, _)
GCD(a, b) == IF b = 0 THEN a ELSE GCD(b, a % b)

Abs(x) == IF x < 0 THEN -x ELSE x

Rat(n, d) ==
    LET g == GCD(Abs(n), Abs(d))
        s == IF d < 0 THEN -1 ELSE 1
    IN  [n |-> (s * n) \div g, d |-> (s * d) \div g]

RInt(k) == [n |-> k, d |-> 1]
RAdd(a, b) == Rat(a.n * b.d + b.n * a.d, a.d * b.d)
RSub(a, b) == Rat(a.n * b.d - b.n * a.d, a.d * b.d)
RScale(k, a) == Rat(k * a.n, a.d)
RLess(a, b) == a.n * b.d < b.n * a.d

Sign(x) == IF x > 0 THEN 1 ELSE IF x < 0 THEN -1 ELSE 0

-----------------------------------------------------------------------------
(* MovingAverageCross: the indicators *)

ma1 == 5
ma2 == 20

RECURSIVE SumRange(_, _, _)
SumRange(s, lo, hi) == IF lo > hi THEN 0 ELSE s[hi] + SumRange(s, lo, hi - 1)

\* bt.indicators.SimpleMovingAverage(data.close, period) on the last bar of s:
\* defined once period closes exist.
SMADefined(s, period) == Len(s) >= period
SMA(s, period) == Rat(SumRange(s, Len(s) - period + 1, Len(s)), period)

\* ma1 - ma2 on the last bar of s, scaled by ma1*ma2 (same sign, same zero).
MADiff(s) ==
    LET d == RSub(SMA(s, ma1), SMA(s, ma2))
    IN  d.n * ((ma1 * ma2) \div d.d)

NoNzd == [ok |-> FALSE, v |-> 0]

\* NonZeroDifference: the difference, or the previous value where it is 0;
\* its first value (nextstart) is the plain difference.
NonZeroDifference(s, prev) ==
    IF ~SMADefined(s, ma2) THEN NoNzd
    ELSE LET d == MADiff(s)
         IN  IF ~prev.ok THEN [ok |-> TRUE, v |-> d]
             ELSE [ok |-> TRUE, v |-> IF d # 0 THEN d ELSE prev.v]

\* (faulty variant, not the code) the raw comparison of the current bar instead of the transition
CrossUpRaw(s, prev) == MADiff(s) > 0
CrossDownRaw(s, prev) == MADiff(s) < 0

\* CrossOver = CrossUp - CrossDown; CrossUp is nzd(-1) < 0 and ma1 > ma2,
\* CrossDown is nzd(-1) > 0 and ma1 < ma2.
CrossUp(s, prev) == prev.v < 0 /\ MADiff(s) > 0
CrossDown(s, prev) == prev.v > 0 /\ MADiff(s) < 0

CrossOver(s, prev) ==
    IF ~prev.ok THEN 0
    ELSE (IF CrossUp(s, prev) THEN 1 ELSE 0) - (IF CrossDown(s, prev) THEN 1 ELSE 0)

\* (faulty variant, not the code) the slow average is read as 0 while it is undefined, so the fast
\* average crosses above it on the bar it becomes defined
StrategyNextUndefinedAsZero(s, prev) ==
    IF ~prev.ok THEN (IF Len(s) = ma1 THEN "buy" ELSE "none")
    ELSE IF CrossOver(s, prev) > 0 THEN "buy"
    ELSE IF CrossOver(s, prev) < 0 THEN "sell"
    ELSE "none"

\* MovingAverageCross.next: called once the CrossOver line exists (ma2 + 1
\* bars); before that backtrader calls prenext, which does nothing.
StrategyNext(s, prev) ==
    IF ~prev.ok THEN "none"
    ELSE IF CrossOver(s, prev) > 0 THEN "buy"
    ELSE IF CrossOver(s, prev) < 0 THEN "sell"
    ELSE "none"

-----------------------------------------------------------------------------
(* The broker of bt.Cerebro() *)

StartCash == 10000
Stake == 1

NoOrder == [side |-> "none", size |-> 0, created |-> 0]

\* (faulty variant, not the code) an order sized with all the cash at the current close
MakeOrderAllIn(side, close) ==
    IF side = "buy" THEN [side |-> "buy", size |-> cash \div close, created |-> close]
    ELSE IF side = "sell" THEN [side |-> "sell", size |-> -(cash \div close), created |-> close]
    ELSE NoOrder

\* Strategy.buy() / sell(): a Market order of the sizer's stake, created at
\* the current close.
MakeOrder(side, close) ==
    IF side = "buy" THEN [side |-> "buy", size |-> Stake, created |-> close]
    ELSE IF side = "sell" THEN [side |-> "sell", size |-> -Stake, created |-> close]
    ELSE NoOrder

\* Position.update(size, price): the new size and price and the parts of the
\* order that open and that close.
PositionUpdate(psize, pprice, osize, oprice) ==
    LET nsize == psize + osize
    IN  IF nsize = 0 THEN
            [size |-> 0, price |-> RInt(0), opened |-> 0, closed |-> osize]
        ELSE IF psize = 0 THEN
            [size |-> nsize, price |-> RInt(oprice), opened |-> osize, closed |-> 0]
        ELSE IF Sign(psize) = Sign(osize) THEN
            [size |-> nsize,
             price |-> Rat(pprice.n * psize + osize * oprice * pprice.d, pprice.d * nsize),
             opened |-> osize, closed |-> 0]
        ELSE IF Sign(nsize) = Sign(psize) THEN
            [size |-> nsize, price |-> pprice, opened |-> 0, closed |-> osize]
        ELSE
            [size |-> nsize, price |-> RInt(oprice), opened |-> nsize, closed |-> -psize]

\* (faulty variant, not the code) an execution that exits the opposite position first and then
\* enters the whole order
ExecuteExitFirst(b, osize, oprice) ==
    IF b.size # 0 /\ Sign(b.size) # Sign(osize) THEN
        [cash |-> b.cash + b.size * oprice - osize * oprice,
         size |-> osize, price |-> RInt(oprice),
         pnl |-> RScale(b.size, RSub(RInt(oprice), b.price)),
         done |-> osize - b.size]
    ELSE
        [cash |-> b.cash - osize * oprice,
         size |-> b.size + osize,
         price |-> PositionUpdate(b.size, b.price, osize, oprice).price,
         pnl |-> RInt(0), done |-> osize]

\* (faulty variant, not the code) an execution that silently drops an order for the side held
ExecuteIgnoreSameSide(b, osize, oprice) ==
    IF b.size # 0 /\ Sign(b.size) = Sign(osize) THEN
        [cash |-> b.cash, size |-> b.size, price |-> b.price,
         pnl |-> RInt(0), done |-> 0]
    ELSE
        LET u == PositionUpdate(b.size, b.price, osize, oprice)
        IN  [cash |-> b.cash - osize * oprice, size |-> u.size, price |-> u.price,
             pnl |-> IF u.closed # 0
                     THEN RScale(-u.closed, RSub(RInt(oprice), b.price))
                     ELSE RInt(0),
             done |-> osize]

\* BackBroker._execute at a price: closing re-injects cash, opening takes it;
\* an opening part the cash cannot pay for is dropped.
Execute(b, osize, oprice) ==
    LET u == PositionUpdate(b.size, b.price, osize, oprice)
        pnl == RScale(-u.closed, RSub(RInt(oprice), b.price))
        cash1 == b.cash - u.closed * oprice
        cash2 == cash1 - u.opened * oprice
        opened == IF u.opened # 0 /\ cash2 < 0 THEN 0 ELSE u.opened
        done == u.closed + opened
        p == PositionUpdate(b.size, b.price, done, oprice)
    IN  IF done = 0 THEN
            [cash |-> b.cash, size |-> b.size, price |-> b.price,
             pnl |-> RInt(0), done |-> 0]
        ELSE
            [cash |-> IF opened # 0 THEN cash2 ELSE cash1,
             size |-> p.size, price |-> p.price,
             pnl |-> IF u.closed # 0 THEN pnl ELSE RInt(0), done |-> done]

\* BackBroker.check_submitted: the order is accepted when executing it at its
\* creation price leaves cash >= 0.
CheckSubmitted(b, o) ==
    LET u == PositionUpdate(b.size, b.price, o.size, o.created)
    IN  b.cash - u.closed * o.created - u.opened * o.created >= 0

\* (faulty variant, not the code) the pending order executes at the close it was created at
BrokerNextAtClose(b, o, open) ==
    IF o.side = "none" \/ ~CheckSubmitted(b, o) THEN
        [cash |-> b.cash, size |-> b.size, price |-> b.price,
         pnl |-> RInt(0), done |-> 0]
    ELSE Execute(b, o.size, o.created)

\* (faulty variant, not the code) a bar with nothing to execute charges the open position a
\* carrying cost
BrokerNextCarry(b, o, open) ==
    IF o.side = "none" \/ ~CheckSubmitted(b, o) THEN
        [cash |-> b.cash - Abs(b.size), size |-> b.size, price |-> b.price,
         pnl |-> RInt(0), done |-> 0]
    ELSE Execute(b, o.size, open)

\* BackBroker.next on a new bar: a pending Market order executes at the open.
BrokerNext(b, o, open) ==
    IF o.side = "none" \/ ~CheckSubmitted(b, o) THEN
        [cash |-> b.cash, size |-> b.size, price |-> b.price,
         pnl |-> RInt(0), done |-> 0]
    ELSE Execute(b, o.size, open)

\* (faulty variant, not the code) a value that leaves the open position out
GetValueCashOnly(c, sz, close) == c

\* BackBroker.get_value: cash plus the position at the bar's close.
GetValue(c, sz, close) == c + sz * close

-----------------------------------------------------------------------------
(* get_data and its cache *)

Symbols == {"LPLA", "AAPL"}

Date(t) == t \div TicksPerDay
Dates == 0..Date(MaxTime + 1)

\* (faulty variant, not the code) a key that leaves the date out
CacheKeyNoDate(sym, t) == <<sym, 0>>

\* cache_key: sha256 of "<symbol>_<today>", one file per (symbol, date)
CacheKey(sym, t) == <<sym, Date(t)>>
Keys == Symbols \X Dates

NoFile == [exists |-> FALSE, mtime |-> 0, data |-> <<>>]

\* the provider's CSV for TIME_SERIES_DAILY_ADJUSTED
CsvHeader == <<"timestamp", "open", "high", "low", "close", "adjusted_close",
               "volume", "dividend_amount", "split_coefficient">>

Statuses == {200, 503}

\* requests.get(url): the status is the provider's; the body is the
\* provider's history for the symbol as of the time of the request
Response(sym, status, t) ==
    [status |-> status, header |-> CsvHeader, sym |-> sym, asof |-> t]

\* pd.read_csv of the body
ReadCsv(resp) == [columns |-> resp.header, sym |-> resp.sym, asof |-> resp.asof]

\* os.path.exists and time_since_update < timedelta(days=1)
IsFresh(e, t) == e.exists /\ t - e.mtime < TicksPerDay

\* (faulty variant, not the code) the response is parsed and cached before its status is looked at
GetDataCacheFirst(sym, status, t, files) ==
    LET key == CacheKey(sym, t)
        df == ReadCsv(Response(sym, status, t))
        written == [files EXCEPT ![key] = [exists |-> TRUE, mtime |-> t, data |-> df]]
    IN  IF IsFresh(files[key], t) THEN
            [outcome |-> "hit", df |-> files[key].data, files |-> files, net |-> 0]
        ELSE IF status # 200 THEN
            [outcome |-> "ValueError", df |-> <<>>, files |-> written, net |-> 1]
        ELSE
            [outcome |-> "fetched", df |-> df, files |-> written, net |-> 1]

\* get_data(api_key, symbol) at time t with the cache files `files`, the
\* provider answering with `status`
GetData(sym, status, t, files) ==
    LET key == CacheKey(sym, t)
    IN  IF IsFresh(files[key], t) THEN
            [outcome |-> "hit", df |-> files[key].data, files |-> files, net |-> 0]
        ELSE IF status # 200 THEN
            [outcome |-> "ValueError", df |-> <<>>, files |-> files, net |-> 1]
        ELSE
            LET df == ReadCsv(Response(sym, status, t))
            IN  [outcome |-> "fetched", df |-> df,
                 files |-> [files EXCEPT ![key] =
                               [exists |-> TRUE, mtime |-> t, data |-> df]],
                 net |-> 1]

CallRecord(sym, status, r) ==
    [t |-> now, sym |-> sym, key |-> CacheKey(sym, now), status |-> status,
     outcome |-> r.outcome, df |-> r.df, net |-> r.net, wrote |-> r.files # cache]

-----------------------------------------------------------------------------
(* prepare_data, calculate_technical_indicators: the columns they need *)

PreparedColumns == <<"Open", "High", "Low", "Close", "Adjusted Close", "Volume",
                     "Dividend Amount", "Split Coefficient">>
DroppedColumns == {"Open", "High", "Low", "Dividend Amount", "Split Coefficient"}

Range(s) == {s[i] : i \in 1..Len(s)}

RECURSIVE DropColumns(_, _)
DropColumns(cols, drop) ==
    IF cols = <<>> THEN <<>>
    ELSE IF cols[1] \in drop THEN DropColumns(Tail(cols), drop)
    ELSE <<cols[1]>> \o DropColumns(Tail(cols), drop)

\* prepare_data(df): df.columns = [8 names] needs 8 columns; after the
\* rename and the drop, fill_missing_values reads df['4. close'].
PrepareData(df) ==
    IF Len(df.columns) # Len(PreparedColumns) THEN
        [exc |-> "ValueError: Length mismatch", df |-> df]
    ELSE
        LET kept == DropColumns(PreparedColumns, DroppedColumns)
        IN  IF "4. close" \notin Range(kept) THEN
                [exc |-> "KeyError: 4. close", df |-> df]
            ELSE [exc |-> "", df |-> [df EXCEPT !.columns = kept]]

\* calculate_technical_indicators(df) reads df['close']
IndicatorColumns(df) ==
    IF "close" \notin Range(df.columns) THEN [exc |-> "KeyError: close", df |-> df]
    ELSE [exc |-> "", df |-> [df EXCEPT !.columns = @ \o <<"ma5", "ma20", "rsi">>]]

\* __main__ after get_data returned r: each stage starts when the one before
\* it returned, an exception ends the run.
MainStages(r) ==
    IF r.outcome = "ValueError" THEN
        [stages |-> <<"get_data">>, exc |-> "ValueError: API request failed"]
    ELSE
        LET p == PrepareData(r.df)
        IN  IF p.exc # "" THEN
                [stages |-> <<"get_data", "prepare_data">>, exc |-> p.exc]
            ELSE
                LET q == IndicatorColumns(p.df)
                IN  IF q.exc # "" THEN
                        [stages |-> <<"get_data", "prepare_data",
                                      "calculate_technical_indicators">>,
                         exc |-> q.exc]
                    ELSE
                        [stages |-> <<"get_data", "prepare_data",
                                      "calculate_technical_indicators", "backtest">>,
                         exc |-> ""]

-----------------------------------------------------------------------------
(* The data provider: calls of get_data over time *)

\* time passes
Tick ==
    /\ now < MaxTime
    /\ now' = now + 1
    /\ UNCHANGED <<cache, requests, calls, runs, replayVars, indVars, pipeVars, twinVars,
                   raceVars>>

\* a caller of get_data
GetDataCall(sym, status) ==
    /\ Len(calls) < MaxCalls
    /\ LET r == GetData(sym, status, now, cache)
       IN  /\ cache' = r.files
           /\ requests' = requests + r.net
           /\ calls' = Append(calls, CallRecord(sym, status, r))
    /\ UNCHANGED <<now, runs, replayVars, indVars, pipeVars, twinVars, raceVars>>

\* python x_trader.py
Main(status) ==
    /\ Len(calls) < MaxCalls
    /\ LET r == GetData("LPLA", status, now, cache)
           m == MainStages(r)
       IN  /\ cache' = r.files
           /\ requests' = requests + r.net
           /\ calls' = Append(calls, CallRecord("LPLA", status, r))
           /\ runs' = Append(runs, [t |-> now, call |-> Len(calls) + 1,
                                    stages |-> m.stages, exc |-> m.exc])
    /\ UNCHANGED <<now, replayVars, indVars, pipeVars, twinVars, raceVars>>

InitFeed ==
    /\ now = 0
    /\ cache = [k \in Keys |-> NoFile]
    /\ requests = 0
    /\ calls = <<>>
    /\ runs = <<>>

-----------------------------------------------------------------------------
(* get_data run by concurrent callers: each caller takes the steps of the
   function one at a time, the other caller's steps may fall between them *)

Callers == {1, 2}

Idle == [pc |-> "idle", sym |-> "", key |-> <<"", 0>>, found |-> FALSE,
         missed |-> FALSE, df |-> <<>>, outcome |-> ""]

\* lines 13-14: the caller computes its key from the symbol and today's date
Enter(p, sym) ==
    /\ callers[p].pc = "idle"
    /\ callers' = [callers EXCEPT ![p] =
                      [@ EXCEPT !.pc = "check", !.sym = sym, !.key = CacheKey(sym, now)]]
    /\ UNCHANGED <<now, cache, requests, calls, runs, replayVars, indVars, pipeVars,
                   twinVars>>

\* lines 17-23: a fresh file is returned; otherwise the caller goes on to the
\* request, and nothing is written that tells another caller so
CheckCache(p) ==
    /\ callers[p].pc = "check"
    /\ callers' = [callers EXCEPT ![p] =
                      IF IsFresh(cache[callers[p].key], now)
                      THEN [@ EXCEPT !.pc = "done", !.outcome = "hit", !.found = TRUE,
                                     !.df = cache[callers[p].key].data]
                      ELSE [@ EXCEPT !.pc = "request", !.missed = TRUE,
                                     !.found = cache[callers[p].key].exists]]
    /\ UNCHANGED <<now, cache, requests, calls, runs, replayVars, indVars, pipeVars,
                   twinVars>>

\* (faulty variant, not the code) the caller looks at the file again before it asks the provider
RequestRecheck(p, status) ==
    /\ callers[p].pc = "request"
    /\ IF IsFresh(cache[callers[p].key], now)
       THEN /\ callers' = [callers EXCEPT ![p] =
                              [@ EXCEPT !.pc = "done", !.outcome = "hit",
                                        !.df = cache[callers[p].key].data]]
            /\ requests' = requests
       ELSE /\ requests' = requests + 1
            /\ callers' = [callers EXCEPT ![p] =
                              IF status # 200
                              THEN [@ EXCEPT !.pc = "done", !.outcome = "ValueError"]
                              ELSE [@ EXCEPT !.pc = "dump",
                                             !.df = ReadCsv(Response(callers[p].sym, status, now))]]
    /\ UNCHANGED <<now, cache, calls, runs, replayVars, indVars, pipeVars, twinVars>>

\* lines 26-40: the request, the status check, the parse
Request(p, status) ==
    /\ callers[p].pc = "request"
    /\ requests' = requests + 1
    /\ callers' = [callers EXCEPT ![p] =
                      IF status # 200
                      THEN [@ EXCEPT !.pc = "done", !.outcome = "ValueError"]
                      ELSE [@ EXCEPT !.pc = "dump",
                                     !.df = ReadCsv(Response(callers[p].sym, status, now))]]
    /\ UNCHANGED <<now, cache, calls, runs, replayVars, indVars, pipeVars, twinVars>>

\* lines 43-45: joblib.dump writes the file, whatever is there
Dump(p) ==
    /\ callers[p].pc = "dump"
    /\ cache' = [cache EXCEPT ![callers[p].key] =
                    [exists |-> TRUE, mtime |-> now, data |-> callers[p].df]]
    /\ callers' = [callers EXCEPT ![p] = [@ EXCEPT !.pc = "done", !.outcome = "fetched"]]
    /\ UNCHANGED <<now, requests, calls, runs, replayVars, indVars, pipeVars, twinVars>>

InitRace == callers = [p \in Callers |-> Idle]

-----------------------------------------------------------------------------
(* calculate_technical_indicators: pandas columns, NaN where undefined *)

MaFastWindow == 5
MaSlowWindow == 20
RsiWindow == 14

NaN == [ok |-> FALSE, n |-> 0, d |-> 1]
Num(r) == [ok |-> TRUE, n |-> r.n, d |-> r.d]
Inf == [ok |-> TRUE, n |-> 1, d |-> 0]
IsInf(x) == x.ok /\ x.d = 0

\* df['close'] as a float column
RECURSIVE CloseColumn(_)
CloseColumn(closeValues) ==
    IF closeValues = <<>> THEN <<>>
    ELSE Append(CloseColumn(SubSeq(closeValues, 1, Len(closeValues) - 1)),
                Num(RInt(closeValues[Len(closeValues)])))

\* the rolling window moved on to row i: the row enters, the row w places
\* back leaves; st is the running sum and the number of observations
RollStep(col, w, i, st) ==
    LET a == IF col[i].ok
             THEN [sum |-> RAdd(st.sum, col[i]), nobs |-> st.nobs + 1]
             ELSE st
    IN  IF i > w /\ col[i - w].ok
        THEN [sum |-> RSub(a.sum, col[i - w]), nobs |-> a.nobs - 1]
        ELSE a

\* the rows i.. of the rolling mean, given the window before row i; a row is
\* NaN while the window holds fewer than minp observations
RECURSIVE RollRows(_, _, _, _, _, _)
RollRows(col, w, minp, i, st, acc) ==
    IF i > Len(col) THEN acc
    ELSE LET nx == RollStep(col, w, i, st)
         IN  RollRows(col, w, minp, i + 1, nx,
                      Append(acc, IF nx.nobs < minp THEN NaN
                                  ELSE Num(Rat(nx.sum.n, nx.sum.d * nx.nobs))))

\* (faulty variant, not the code) rolling(window=w, min_periods=1).mean(): partial windows averaged
RollingMeanPartial(col, w) ==
    RollRows(col, w, 1, 1, [sum |-> RInt(0), nobs |-> 0], <<>>)

\* col.rolling(window=w).mean(): NaN until w observations are in the window
RollingMean(col, w) ==
    RollRows(col, w, w, 1, [sum |-> RInt(0), nobs |-> 0], <<>>)

\* col.diff(): NaN on the first row
RECURSIVE DeltaRows(_, _)
DeltaRows(col, i) ==
    IF i = 0 THEN <<>>
    ELSE Append(DeltaRows(col, i - 1),
                IF i = 1 \/ ~col[i].ok \/ ~col[i - 1].ok THEN NaN
                ELSE Num(RSub(col[i], col[i - 1])))

Delta(col) == DeltaRows(col, Len(col))

\* delta.where(delta > 0, 0): rows where the test is false, NaN rows
\* included, become 0
RECURSIVE Gain(_)
Gain(delta) ==
    IF delta = <<>> THEN <<>>
    ELSE LET x == delta[Len(delta)]
         IN  Append(Gain(SubSeq(delta, 1, Len(delta) - 1)),
                    IF x.ok /\ x.n > 0 THEN x ELSE Num(RInt(0)))

\* -delta.where(delta < 0, 0)
RECURSIVE Loss(_)
Loss(delta) ==
    IF delta = <<>> THEN <<>>
    ELSE LET x == delta[Len(delta)]
         IN  Append(Loss(SubSeq(delta, 1, Len(delta) - 1)),
                    IF x.ok /\ x.n < 0 THEN Num(RScale(-1, x)) ELSE Num(RInt(0)))

\* float division of two columns' values: x/0 is inf, 0/0 is NaN
FloatDiv(a, b) ==
    IF ~a.ok \/ ~b.ok THEN NaN
    ELSE IF b.n = 0 THEN (IF a.n = 0 THEN NaN ELSE Inf)
    ELSE Num(Rat(a.n * b.d, a.d * b.n))

\* 100 - (100 / (1 + rs))
RsiOf(rs) ==
    IF ~rs.ok THEN NaN
    ELSE IF IsInf(rs) THEN Num(RInt(100))
    ELSE Num(RSub(RInt(100), Rat(100 * rs.d, rs.n + rs.d)))

\* rs = avg_gain / avg_loss; df['rsi'] = 100 - (100 / (1 + rs))
RECURSIVE RsiRows(_, _, _)
RsiRows(avg_gain, avg_loss, i) ==
    IF i = 0 THEN <<>>
    ELSE Append(RsiRows(avg_gain, avg_loss, i - 1),
                RsiOf(FloatDiv(avg_gain[i], avg_loss[i])))

\* lines 78-86 on the column col that df['close'] gave
IndicatorsOf(col) ==
    LET delta == Delta(col)
        avg_gain == RollingMean(Gain(delta), RsiWindow)
        avg_loss == RollingMean(Loss(delta), RsiWindow)
    IN  [done |-> TRUE,
         ma5 |-> RollingMean(col, MaFastWindow),
         ma20 |-> RollingMean(col, MaSlowWindow),
         rsi |-> RsiRows(avg_gain, avg_loss, Len(col))]

CalculateTechnicalIndicators(closeValues) == IndicatorsOf(CloseColumn(closeValues))

NoInd == [done |-> FALSE, ma5 |-> <<>>, ma20 |-> <<>>, rsi |-> <<>>]

\* a row of the frame: the close repeats the last one or moves to another
\* level, at most IndSwitches times
AddRow(c) ==
    /\ ~ind.done
    /\ Len(frame) < IndBars
    /\ IF frame = <<>> \/ c = frame[Len(frame)]
       THEN frameSwitches' = frameSwitches
       ELSE frameSwitches < IndSwitches /\ frameSwitches' = frameSwitches + 1
    /\ frame' = Append(frame, c)
    /\ UNCHANGED <<ind, replayVars, feedVars, pipeVars, twinVars, raceVars>>

\* calculate_technical_indicators(frame)
Calculate ==
    /\ ~ind.done
    /\ ind' = CalculateTechnicalIndicators(frame)
    /\ UNCHANGED <<frame, frameSwitches, replayVars, feedVars, pipeVars, twinVars, raceVars>>

InitInd ==
    /\ frame = <<>>
    /\ frameSwitches = 0
    /\ ind = NoInd

-----------------------------------------------------------------------------
(* prepare_data -> calculate_technical_indicators on a frame with values *)

\* a DataFrame: the column names in order and, under each, its values
HasColumn(df, name) == name \in Range(df.columns)
Column(df, name) ==
    df.vals[CHOOSE k \in 1..Len(df.columns) : df.columns[k] = name]

SetColumn(df, name, col) ==
    [df EXCEPT !.vals =
        [k \in 1..Len(df.columns) |-> IF df.columns[k] = name THEN col ELSE @[k]]]

\* df.columns = names: the values stay where they are
Rename(df, names) == [df EXCEPT !.columns = names]

\* df.drop(columns=drop): the columns 1..k of df without those named in drop
RECURSIVE DropFrom(_, _, _)
DropFrom(df, drop, k) ==
    IF k = 0 THEN [columns |-> <<>>, vals |-> <<>>]
    ELSE LET rest == DropFrom(df, drop, k - 1)
         IN  IF df.columns[k] \in drop THEN rest
             ELSE [columns |-> Append(rest.columns, df.columns[k]),
                   vals |-> Append(rest.vals, df.vals[k])]

\* col.fillna(method='ffill'): a NaN takes the last value before it; NaN at
\* the head of the column stays
RECURSIVE Ffill(_)
Ffill(col) ==
    IF col = <<>> THEN <<>>
    ELSE LET head == Ffill(SubSeq(col, 1, Len(col) - 1))
             x == col[Len(col)]
         IN  Append(head, IF x.ok \/ head = <<>> THEN x ELSE head[Len(head)])

\* fill_missing_values(df): reads and writes df['4. close']
FillMissingValues(df) ==
    IF ~HasColumn(df, "4. close") THEN [exc |-> "KeyError: 4. close", df |-> df]
    ELSE [exc |-> "", df |-> SetColumn(df, "4. close", Ffill(Column(df, "4. close")))]

\* prepare_data(df) with the values: rename (8 names), drop, (sort: the rows
\* are in date order already), fill
PrepareFrame(df) ==
    IF Len(df.columns) # Len(PreparedColumns) THEN
        [exc |-> "ValueError: Length mismatch", df |-> df]
    ELSE
        LET renamed == Rename(df, PreparedColumns)
        IN  FillMissingValues(DropFrom(renamed, DroppedColumns, Len(renamed.columns)))

\* calculate_technical_indicators(df) with the values: reads df['close']
TechnicalFrame(df) ==
    IF ~HasColumn(df, "close") THEN [exc |-> "KeyError: close", ind |-> NoInd]
    ELSE [exc |-> "", ind |-> IndicatorsOf(Column(df, "close"))]

NoPipe == [done |-> FALSE, stage |-> "", exc |-> "", ind |-> NoInd]

\* __main__ lines 124-125 on the frame df: the stage reached, the exception
\* that ended it, the indicator columns if it got that far
Pipeline(df) ==
    LET p == PrepareFrame(df)
    IN  IF p.exc # "" THEN
            [done |-> TRUE, stage |-> "prepare_data", exc |-> p.exc, ind |-> NoInd]
        ELSE
            LET q == TechnicalFrame(p.df)
            IN  [done |-> TRUE, stage |-> "calculate_technical_indicators",
                 exc |-> q.exc, ind |-> q.ind]

\* The frames given to the pipeline: the provider's CSV as get_data returns
\* it (the timestamp is a column), and the same without the timestamp column
\* (eight columns, as many as prepare_data names).
Layouts == {CsvHeader, Tail(CsvHeader)}

Zeros(n) == [i \in 1..n |-> Num(RInt(0))]

\* the frame with the columns cols whose 'close' column holds closeCol
Frame(cols, closeCol) ==
    [columns |-> cols,
     vals |-> [k \in 1..Len(cols) |->
                  IF cols[k] = "close" THEN closeCol ELSE Zeros(Len(closeCol))]]

RawValues == {Num(RInt(c)) : c \in Prices} \cup {NaN}

\* a row of the provider's history: a close, or a missing one after the
\* first row
AddRawRow(x) ==
    /\ ~pipe.done
    /\ Len(raw) < PipeBars
    /\ x.ok \/ raw # <<>>
    /\ raw' = Append(raw, x)
    /\ UNCHANGED <<pipe, replayVars, feedVars, indVars, twinVars, raceVars>>

\* prepare_data, then calculate_technical_indicators, on the history
RunPipeline(cols) ==
    /\ ~pipe.done
    /\ raw # <<>>
    /\ pipe' = Pipeline(Frame(cols, raw))
    /\ UNCHANGED <<raw, replayVars, feedVars, indVars, twinVars, raceVars>>

InitPipe ==
    /\ raw = <<>>
    /\ pipe = NoPipe

-----------------------------------------------------------------------------
(* The replay: cerebro.run *)

Broker == [cash |-> cash, size |-> size, price |-> price]

\* One bar of cerebro.run with the strategy's decision given as sig:
\* broker.next (executions at the open), then next(), then the observers.
RunBar(c, open, sig) ==
    LET cl == Append(closes, c)
        t == Len(cl)
        x == BrokerNext(Broker, pending, open)
    IN  /\ closes' = cl
        /\ cash' = x.cash
        /\ size' = x.size
        /\ price' = x.price
        /\ realized' = RAdd(realized, x.pnl)
        /\ execs' = IF x.done = 0 THEN execs
                    ELSE Append(execs, [t |-> t, side |-> pending.side, price |-> open,
                                        psize |-> size, size |-> x.size,
                                        pprice |-> price, nprice |-> x.price,
                                        cash0 |-> cash,
                                        cash1 |-> x.cash, pnl |-> x.pnl])
        /\ pending' = MakeOrder(sig, c)
        /\ orders' = IF sig = "none" THEN orders
                     ELSE Append(orders, [t |-> t, side |-> sig, psize |-> x.size])
        /\ equity' = Append(equity, [t |-> t, cash |-> x.cash, size |-> x.size,
                                     value |-> GetValue(x.cash, x.size, c)])

\* The feed: the next close either repeats the last one or moves to another
\* level, at most MaxSwitches times.
FeedClose(c) ==
    IF closes = <<>> \/ c = closes[Len(closes)]
    THEN switches' = switches
    ELSE switches < MaxSwitches /\ switches' = switches + 1

NextBar(c, open) ==
    /\ Len(closes) < MaxBars
    /\ FeedClose(c)
    /\ LET cl == Append(closes, c)
       IN  /\ nzd' = NonZeroDifference(cl, nzd)
           /\ crossover' = CrossOver(cl, nzd)
           /\ RunBar(c, open, StrategyNext(cl, nzd))
    /\ UNCHANGED <<feedVars, indVars, pipeVars, twinVars, raceVars>>

InitReplay ==
    /\ closes = <<>>
    /\ switches = 0
    /\ nzd = NoNzd
    /\ crossover = 0
    /\ pending = NoOrder
    /\ cash = StartCash
    /\ size = 0
    /\ price = RInt(0)
    /\ realized = RInt(0)
    /\ equity = <<>>
    /\ orders = <<>>
    /\ execs = <<>>

NoFirst == [done |-> FALSE, closes |-> <<>>, opens |-> <<>>, equity |-> <<>>,
            orders |-> <<>>, execs |-> <<>>, value |-> 0]

InitTwin ==
    /\ opens = <<>>
    /\ first = NoFirst

Init == InitReplay /\ InitFeed /\ InitInd /\ InitPipe /\ InitTwin /\ InitRace

Next == \E c \in Prices, open \in Opens : NextBar(c, open)

Spec == Init /\ [][Next]_vars

-----------------------------------------------------------------------------
(* The broker under any strategy: cerebro.run where next() may call buy() or
   sell() on any bar.  The shipped strategy never asks for the side it holds,
   so what the broker does with such a request is observed here. *)

Sides == {"buy", "sell", "none"}

BrokerBar(c, open, sig) ==
    /\ Len(closes) < BrokerBars
    /\ FeedClose(c)
    /\ LET cl == Append(closes, c)
       IN  /\ nzd' = NonZeroDifference(cl, nzd)
           /\ crossover' = CrossOver(cl, nzd)
           /\ RunBar(c, open, sig)
    /\ UNCHANGED <<feedVars, indVars, pipeVars, twinVars, raceVars>>

NextBroker == \E c \in Prices, open \in Opens, sig \in Sides : BrokerBar(c, open, sig)

SpecBroker == Init /\ [][NextBroker]_vars

-----------------------------------------------------------------------------
(* The replay with its opens kept, and run twice: backtest(df), then later
   backtest(df) again on the same bars.  The opens are kept so that an
   execution can be compared with the open of its bar and the second run be
   fed the bars of the first. *)

\* the open of a bar with no order to execute is read by nothing: it is the
\* lowest one; a bar with an order to execute may open anywhere
OpensRead(o) ==
    IF o.side = "none" THEN {CHOOSE x \in Opens : \A y \in Opens : x <= y} ELSE Opens

\* one bar of a run: of the first run any bar of the family, of the second
\* run the bar the first run had at that place
TwinBar(c, open) ==
    /\ Len(closes) < TwinBars
    /\ IF first.done
       THEN /\ c = first.closes[Len(closes) + 1]
            /\ open = first.opens[Len(closes) + 1]
            /\ switches' = switches
       ELSE /\ open \in OpensRead(pending)
            /\ IF closes = <<>> \/ c = closes[Len(closes)]
               THEN switches' = switches
               ELSE switches < TwinSwitches /\ switches' = switches + 1
    /\ LET cl == Append(closes, c)
       IN  /\ nzd' = NonZeroDifference(cl, nzd)
           /\ crossover' = CrossOver(cl, nzd)
           /\ RunBar(c, open, StrategyNext(cl, nzd))
    /\ opens' = Append(opens, open)
    /\ UNCHANGED <<first, feedVars, indVars, pipeVars, raceVars>>

\* (faulty variant, not the code) the second run goes on with the broker of the first
RerunKeepBroker ==
    /\ ~first.done
    /\ Len(closes) = TwinBars
    /\ now < MaxTime
    /\ first' = [done |-> TRUE, closes |-> closes, opens |-> opens, equity |-> equity,
                 orders |-> orders, execs |-> execs,
                 value |-> GetValue(cash, size, closes[Len(closes)])]
    /\ closes' = <<>> /\ opens' = <<>> /\ switches' = 0
    /\ nzd' = NoNzd /\ crossover' = 0 /\ pending' = NoOrder
    /\ equity' = <<>> /\ orders' = <<>> /\ execs' = <<>>
    /\ now' = now + 1
    /\ UNCHANGED <<cash, size, price, realized, cache, requests, calls, runs, indVars,
                   pipeVars, raceVars>>

\* backtest(df) called again, later: a new Cerebro, so a new broker with the
\* default cash, a new strategy and new observers; the first run's logs are
\* kept for the comparison
Rerun ==
    /\ ~first.done
    /\ Len(closes) = TwinBars
    /\ now < MaxTime
    /\ first' = [done |-> TRUE, closes |-> closes, opens |-> opens, equity |-> equity,
                 orders |-> orders, execs |-> execs,
                 value |-> GetValue(cash, size, closes[Len(closes)])]
    /\ closes' = <<>> /\ opens' = <<>> /\ switches' = 0
    /\ nzd' = NoNzd /\ crossover' = 0 /\ pending' = NoOrder
    /\ cash' = StartCash /\ size' = 0 /\ price' = RInt(0) /\ realized' = RInt(0)
    /\ equity' = <<>> /\ orders' = <<>> /\ execs' = <<>>
    /\ now' = now + 1
    /\ UNCHANGED <<cache, requests, calls, runs, indVars, pipeVars, raceVars>>

NextTwin ==
    \/ \E c \in Prices, open \in Opens : TwinBar(c, open)
    \/ Rerun

SpecTwin == Init /\ [][NextTwin]_vars

-----------------------------------------------------------------------------
(* The data provider over time: the script and other callers of get_data *)

NextFeed ==
    \/ Tick
    \/ \E sym \in Symbols, status \in Statuses : GetDataCall(sym, status)
    \/ \E status \in Statuses : Main(status)

SpecFeed == Init /\ [][NextFeed]_vars

-----------------------------------------------------------------------------
(* The indicator columns of any frame *)

NextInd ==
    \/ \E c \in Prices : AddRow(c)
    \/ Calculate

SpecInd == Init /\ [][NextInd]_vars

-----------------------------------------------------------------------------
(* The pipeline on any history, gaps included *)

NextPipe ==
    \/ \E x \in RawValues : AddRawRow(x)
    \/ \E cols \in Layouts : RunPipeline(cols)

SpecPipe == Init /\ [][NextPipe]_vars

-----------------------------------------------------------------------------
(* Two callers of get_data at once *)

NextRace ==
    \/ Tick
    \/ \E p \in Callers, sym \in Symbols : Enter(p, sym)
    \/ \E p \in Callers : CheckCache(p)
    \/ \E p \in Callers, status \in Statuses : Request(p, status)
    \/ \E p \in Callers : Dump(p)

SpecRace == Init /\ [][NextRace]_vars

-----------------------------------------------------------------------------
(* History read by the properties *)

Bars == 1..Len(closes)
Prefix(t) == SubSeq(closes, 1, t)

\* ma1 - ma2 at bar t (scaled), for t >= ma2
DiffAt(t) == MADiff(Prefix(t))

\* what next() asked for on bar t
SignalAt(t) ==
    IF \E i \in 1..Len(orders) : orders[i].t = t
    THEN (CHOOSE o \in {orders[i] : i \in 1..Len(orders)} : o.t = t).side
    ELSE "none"

\* the last difference other than 0 among bars ma2..t, 0 if there is none
LastNonZeroDiff(t) ==
    LET J == {j \in ma2..t : DiffAt(j) # 0}
    IN  IF J = {} THEN 0
        ELSE DiffAt(CHOOSE j \in J : \A k \in J : k <= j)

-----------------------------------------------------------------------------
(* C1 *)

\* C1 as stated: a buy is emitted on bar t exactly when fast <= slow on bar
\* t-1 and fast > slow on bar t (both averages defined on both bars), and
\* nothing is emitted on the other bars for a bullish reason.
C1_AsStated ==
    \A t \in Bars : t > ma2 =>
        (SignalAt(t) = "buy" <=> (DiffAt(t - 1) <= 0 /\ DiffAt(t) > 0))

\* C1 amended: a buy is emitted on bar t exactly when fast > slow on bar t
\* and, on the most recent earlier bar where the two averages differed
\* (since both are defined), fast was below slow; bars where the averages are
\* equal keep the earlier side.  On no other bar is a buy emitted, so fast >
\* slow merely continuing to hold never re-triggers.
C1_CrossingEmitsOneBuy ==
    \A t \in Bars :
        SignalAt(t) = "buy" <=>
            (t > ma2 /\ LastNonZeroDiff(t - 1) < 0 /\ DiffAt(t) > 0)

\* a buy on a crossing bar, followed by a bar where fast > slow still holds
\* and nothing is emitted
C1_Witness ==
    \E t \in Bars :
        /\ t > ma2 /\ t < Len(closes)
        /\ DiffAt(t - 1) <= 0 /\ DiffAt(t) > 0
        /\ SignalAt(t) = "buy"
        /\ DiffAt(t + 1) > 0 /\ SignalAt(t + 1) = "none"

-----------------------------------------------------------------------------
(* C2 *)

Execs == 1..Len(execs)

\* the example of C2 on the broker: cash 10,000, a buy executed at 100, then
\* a sell executed at 110
ExampleEntry == Execute([cash |-> StartCash, size |-> 0, price |-> RInt(0)], Stake, 100)
ExampleExit == Execute(ExampleEntry, -Stake, 110)

\* C2 as stated: a buy executed from FLAT with cash c at price p leaves
\* quantity c/p and cash 0.
C2_AsStated ==
    \A i \in Execs :
        (execs[i].side = "buy" /\ execs[i].psize = 0) =>
            (execs[i].cash1 = 0 /\ execs[i].size * execs[i].price = execs[i].cash0)

\* C2 amended: a buy executed from FLAT with cash c at price p opens the fixed
\* stake of one unit: quantity 1, entry price p, cash c - p; the sell that
\* follows at price q closes it: the realized P&L is (q - p) * quantity, cash
\* rises by the proceeds q * quantity and the position is FLAT again (cash
\* 10,000 at 100: quantity 1, cash 9,900; exit at 110: P&L 10, cash 10,010).
C2_EntryIsOneUnit ==
    /\ ExampleEntry.size = 1 /\ ExampleEntry.cash = 9900
    /\ ExampleEntry.price = RInt(100)
    /\ ExampleExit.size = 0 /\ ExampleExit.cash = 10010 /\ ExampleExit.pnl = RInt(10)
    /\ \A i \in Execs :
        (execs[i].side = "buy" /\ execs[i].psize = 0) =>
            /\ execs[i].size = 1
            /\ execs[i].nprice = RInt(execs[i].price)
            /\ execs[i].cash1 = execs[i].cash0 - execs[i].price
            /\ execs[i].pnl = RInt(0)
            /\ (i + 1 \in Execs /\ execs[i + 1].side = "sell") =>
                  /\ execs[i + 1].pnl =
                        RInt((execs[i + 1].price - execs[i].price) * execs[i].size)
                  /\ execs[i + 1].cash1 =
                        execs[i + 1].cash0 + execs[i + 1].price * execs[i].size
                  /\ execs[i + 1].size = 0
                  /\ execs[i + 1].nprice = RInt(0)

\* a long entry from FLAT and the sell that closes it, at another price
C2_Witness ==
    \E i \in Execs :
        /\ execs[i].side = "buy" /\ execs[i].psize = 0
        /\ i + 1 \in Execs /\ execs[i + 1].side = "sell"
        /\ execs[i + 1].price # execs[i].price
        /\ size = 0 /\ realized # RInt(0)

-----------------------------------------------------------------------------
(* C3 *)

\* C3 as stated: a buy executed while SHORT leaves the position LONG, a sell
\* executed while LONG leaves it SHORT.
C3_AsStated ==
    \A i \in Execs :
        /\ (execs[i].side = "buy" /\ execs[i].psize < 0) => execs[i].size > 0
        /\ (execs[i].side = "sell" /\ execs[i].psize > 0) => execs[i].size < 0

\* C3 amended: a bullish crossing while SHORT buys one unit, which closes the
\* short position fully and leaves the position FLAT (no long is opened);
\* symmetrically a bearish crossing while LONG sells the unit held and leaves
\* the position FLAT.  The order is netted against the open position.
C3_OppositeCrossingFlattens ==
    \A i \in Execs :
        /\ (execs[i].side = "buy" /\ execs[i].psize < 0) =>
              /\ execs[i].size = 0
              /\ execs[i].cash1 = execs[i].cash0 - execs[i].price
        /\ (execs[i].side = "sell" /\ execs[i].psize > 0) =>
              /\ execs[i].size = 0
              /\ execs[i].cash1 = execs[i].cash0 + execs[i].price

\* a buy from a bullish crossing was executed while the position was SHORT
C3_Witness ==
    \E i \in Execs :
        /\ execs[i].side = "buy" /\ execs[i].psize < 0
        /\ SignalAt(execs[i].t - 1) = "buy"

-----------------------------------------------------------------------------
(* C4 *)

\* the bar of the first execution (past the last bar if there is none)
FirstTradeBar == IF execs = <<>> THEN Len(closes) + 1 ELSE execs[1].t

\* C4: after k bars the equity curve holds k entries, entry t for bar t; each
\* entry is the cash plus the position size times the close of its bar (size
\* is signed), the last one with the broker's current cash and position, and
\* every entry before the first execution is the initial cash.
C4_EquityEveryBar ==
    /\ Len(equity) = Len(closes)
    /\ \A t \in Bars : equity[t].t = t
    /\ \A t \in Bars : equity[t].value = equity[t].cash + equity[t].size * closes[t]
    /\ closes # <<>> =>
          /\ equity[Len(closes)].cash = cash /\ equity[Len(closes)].size = size
          /\ equity[Len(closes)].value = cash + size * closes[Len(closes)]
    /\ \A t \in Bars : t < FirstTradeBar => equity[t].value = StartCash

\* bars without a trade, then a bar on which a position is carried at a close
\* other than its entry price
C4_Witness ==
    /\ Len(equity) > ma2 /\ FirstTradeBar > ma2
    /\ size # 0
    /\ equity[Len(equity)].value # StartCash
    /\ equity[Len(equity)].value # cash

-----------------------------------------------------------------------------
(* C5 *)

\* C5: the orders the strategy creates alternate in direction, and none asks
\* for the side already held: no buy while long, no sell while short.
C5_SignalsAlternate ==
    /\ \A i \in 1..Len(orders) - 1 : orders[i].side # orders[i + 1].side
    /\ \A i \in 1..Len(orders) :
          /\ orders[i].side = "buy" => orders[i].psize <= 0
          /\ orders[i].side = "sell" => orders[i].psize >= 0

\* two orders in a row, the first of them executed
C5_Witness ==
    /\ Len(orders) >= 2
    /\ orders[2].psize # 0

-----------------------------------------------------------------------------
(* C6 *)

SameSide(e) == (e.side = "buy" /\ e.psize > 0) \/ (e.side = "sell" /\ e.psize < 0)

-----------------------------------------------------------------------------
(* C7 *)

Calls == 1..Len(calls)
Runs == 1..Len(runs)

\* C7: a request answered with a status other than 200 makes get_data raise
\* ValueError; the call changes no cache file, and a run of the script ends
\* with that error after get_data alone: prepare_data,
\* calculate_technical_indicators and backtest are not started.
C7_FetchErrorStopsRun ==
    /\ \A i \in Calls :
          (calls[i].net = 1 /\ calls[i].status # 200) =>
              (calls[i].outcome = "ValueError" /\ ~calls[i].wrote)
    /\ \A j \in Runs :
          calls[runs[j].call].outcome = "ValueError" =>
              /\ runs[j].exc = "ValueError: API request failed"
              /\ runs[j].stages = <<"get_data">>
    /\ \A k \in Keys :
          cache[k].exists =>
              \E i \in Calls : calls[i].key = k /\ calls[i].outcome = "fetched"

\* a run of the script whose request failed, its key still without a file,
\* and an earlier run that got further
C7_Witness ==
    \E j \in Runs :
        /\ calls[runs[j].call].status # 200
        /\ calls[runs[j].call].net = 1
        /\ runs[j].exc = "ValueError: API request failed"
        /\ ~cache[calls[runs[j].call].key].exists
        /\ \E h \in Runs : h < j /\ Len(runs[h].stages) > 1

-----------------------------------------------------------------------------
(* C8 *)

SameKey(i, j) ==
    calls[i].sym = calls[j].sym /\ Date(calls[i].t) = Date(calls[j].t)

\* the calls before call i that fetched and wrote the entry of i's key
Fetches(i) == {j \in 1..(i - 1) : SameKey(i, j) /\ calls[j].outcome = "fetched"}
LastFetch(i) == CHOOSE j \in Fetches(i) : \A k \in Fetches(i) : k <= j

\* C8: the cache is keyed by (symbol, date).  A call whose key has an entry
\* written less than a day ago returns the data of the call that wrote it,
\* makes no request and rewrites nothing; every other call makes exactly one
\* request and, when it succeeds, writes the entry (the data it returns).
C8_CacheWithinADay ==
    /\ \A i \in Calls :
          IF Fetches(i) # {} /\ calls[i].t - calls[LastFetch(i)].t < TicksPerDay
          THEN /\ calls[i].outcome = "hit"
               /\ calls[i].net = 0
               /\ ~calls[i].wrote
               /\ calls[i].df = calls[LastFetch(i)].df
          ELSE /\ calls[i].net = 1
               /\ calls[i].status = 200 =>
                     (calls[i].outcome = "fetched" /\ calls[i].wrote
                      /\ calls[i].df.sym = calls[i].sym /\ calls[i].df.asof = calls[i].t)
               /\ calls[i].status # 200 => calls[i].outcome = "ValueError"
    /\ requests = Cardinality({i \in Calls : calls[i].net = 1})
    /\ \A i \in Calls :
          calls[i].outcome = "fetched" =>
              LET e == cache[<<calls[i].sym, Date(calls[i].t)>>]
              IN  e.exists /\ e.mtime = calls[i].t /\ e.data = calls[i].df

\* a fetch, a later call in the same day served from the cache, and a call
\* on a later day that fetches again
C8_Witness ==
    \E i, j, k \in Calls :
        /\ i < j /\ j < k
        /\ calls[i].outcome = "fetched"
        /\ calls[j].outcome = "hit" /\ SameKey(i, j) /\ calls[j].t > calls[i].t
        /\ calls[k].sym = calls[i].sym /\ ~SameKey(i, k) /\ calls[k].outcome = "fetched"

-----------------------------------------------------------------------------
(* C9 *)

Rows == 1..Len(frame)

\* the sum of the losses over the RsiWindow deltas that end at row i
\* (rows i - RsiWindow + 1 .. i, each against the row before it)
RECURSIVE LossSum(_, _)
LossSum(lo, hi) ==
    IF lo > hi THEN 0
    ELSE (IF frame[hi] < frame[hi - 1] THEN frame[hi - 1] - frame[hi] ELSE 0) + LossSum(lo, hi - 1)

\* C9: RSI is undefined until RsiWindow + 1 closes exist; from then on it
\* is defined, lies in [0, 100] and is 100 exactly when the average loss over
\* the trailing RsiWindow deltas is 0 (a flat window included).
C9_AsStated ==
    ind.done =>
        \A i \in Rows :
            /\ i <= RsiWindow => ~ind.rsi[i].ok
            /\ i > RsiWindow =>
                  /\ ind.rsi[i].ok
                  /\ ~RLess(ind.rsi[i], RInt(0)) /\ ~RLess(RInt(100), ind.rsi[i])
                  /\ (ind.rsi[i] = Num(RInt(100))) <=> (LossSum(i - RsiWindow + 1, i) = 0)

-----------------------------------------------------------------------------
(* C10 *)

Example == <<10, 11, 12, 11, 10, 9, 10, 11, 12, 13>>

\* C10: for the windows 5 (ma5) and 20 (ma20) the moving average at row i is
\* undefined while fewer than w closes exist up to row i, and otherwise it is
\* the arithmetic mean of exactly the closes at rows i-w+1..i; on the example
\* series with windows 3 and 5 the fast average at 0-based index 4 is 11, the
\* slow one is undefined before index 4 and 10.8 at index 4.
C10_MovingAverageFullWindow ==
    /\ ind.done =>
          \A i \in Rows :
              /\ ind.ma5[i] = IF i < MaFastWindow THEN NaN
                               ELSE Num(Rat(SumRange(frame, i - MaFastWindow + 1, i), MaFastWindow))
              /\ ind.ma20[i] = IF i < MaSlowWindow THEN NaN
                                ELSE Num(Rat(SumRange(frame, i - MaSlowWindow + 1, i), MaSlowWindow))
    /\ RollingMean(CloseColumn(Example), 3)[5] = Num(RInt(11))
    /\ \A i \in 1..4 : ~RollingMean(CloseColumn(Example), 5)[i].ok
    /\ RollingMean(CloseColumn(Example), 5)[5] = Num(Rat(108, 10))

\* a frame long enough for both averages, which differ on the last row, and
\* rows on which the slow average is still undefined
C10_Witness ==
    /\ ind.done
    /\ Len(frame) > MaSlowWindow
    /\ ind.ma20[Len(frame)].ok /\ ind.ma5[Len(frame)].ok
    /\ ind.ma5[Len(frame)] # ind.ma20[Len(frame)]
    /\ ~ind.ma20[MaSlowWindow - 1].ok /\ ind.ma5[MaSlowWindow - 1].ok

-----------------------------------------------------------------------------
(* C11 *)

\* the history holds a close that is missing, after the first row
HasGap == \E i \in 2..Len(raw) : ~raw[i].ok

\* C11 as stated: when the pipeline ran on a history with a missing close
\* (not the first), it raised nothing and the indicator columns it computed
\* are those of the same history with each missing close set to the close
\* before it.
C11_AsStated ==
    (pipe.done /\ HasGap) =>
        (pipe.exc = "" /\ pipe.ind = IndicatorsOf(Ffill(raw)))

-----------------------------------------------------------------------------
(* C12 *)

\* the entries of a log up to bar k
UpTo(log, k) == LET Test(e) == e.t <= k IN SelectSeq(log, Test)

-----------------------------------------------------------------------------
(* C13 *)

Orders == 1..Len(orders)

\* C13 as stated: every order is executed on the bar of its signal, at that
\* bar's close.
C13_AsStated ==
    \A i \in Orders :
        \E j \in Execs :
            /\ execs[j].t = orders[i].t
            /\ execs[j].price = closes[orders[i].t]

\* C13 amended: an order derived from the signal at bar i is carried to bar
\* i+1 and executes there at bar i+1's open, before that bar's signal is
\* computed: every execution is the order of the bar before it, priced at the
\* open of its own bar, filled in full (the whole stake of one unit) and paid
\* without cost (cash moves by exactly price times quantity); every order
\* that has a following bar was executed on it, and an execution on the bar
\* of an order is the opposite order of the bar before; the order of the last
\* bar is still waiting, has changed neither position nor cash, and is never
\* executed if no bar follows.
C13_FillsAtNextOpen ==
    /\ \A j \in Execs :
          /\ execs[j].t >= 2
          /\ SignalAt(execs[j].t - 1) = execs[j].side
          /\ Abs(execs[j].size - execs[j].psize) = Stake
          /\ execs[j].cash1 =
                execs[j].cash0 - (execs[j].size - execs[j].psize) * execs[j].price
    /\ \A j \in Execs : execs[j].price = opens[execs[j].t]
    /\ \A i \in Orders :
          /\ orders[i].t < Len(closes) => \E j \in Execs : execs[j].t = orders[i].t + 1
          /\ \A j \in Execs : execs[j].t = orders[i].t => execs[j].side # orders[i].side
    /\ pending.side # "none" <=> (orders # <<>> /\ orders[Len(orders)].t = Len(closes))
    /\ pending.side # "none" =>
          /\ pending.side = orders[Len(orders)].side
          /\ pending.created = closes[Len(closes)]
          /\ orders[Len(orders)].psize = size

\* an order was executed on the bar after its signal at an open that is
\* neither the close of the signal bar nor the close of its own bar
C13_Witness ==
    \E j \in Execs :
        /\ SignalAt(execs[j].t - 1) = execs[j].side
        /\ execs[j].price # closes[execs[j].t - 1]
        /\ execs[j].price # closes[execs[j].t]
        /\ execs[j].price = opens[execs[j].t]

-----------------------------------------------------------------------------
(* C14 *)

-----------------------------------------------------------------------------
(* C15 *)

\* a bar was fed and next() created no order on it
HoldBar == Len(closes') = Len(closes) + 1 /\ orders' = orders

BrokerUnchanged ==
    /\ cash' = cash /\ realized' = realized
    /\ size' = size /\ price' = price
    /\ execs' = execs

\* C15 as stated: a bar on which the signal is HOLD leaves cash, realized
\* P&L, position and entry price as they were and appends no execution.
C15_AsStated == [][HoldBar => BrokerUnchanged]_vars

\* C15 amended: a bar on which the signal is HOLD and on which no order of
\* the bar before is waiting leaves the broker state unchanged (cash,
\* realized P&L, position side and quantity, entry price), appends nothing
\* to the trade log and leaves no order behind; only the equity curve grows,
\* by one entry.  A HOLD bar on which the order of the bar before is waiting
\* executes that order at its open: the execution is appended and position
\* and cash change.
C15_HoldBarWithoutPendingOrder ==
    [][HoldBar =>
          /\ pending' = NoOrder
          /\ Len(equity') = Len(equity) + 1
          /\ pending.side = "none" => BrokerUnchanged
          /\ pending.side # "none" =>
                /\ Len(execs') = Len(execs) + 1
                /\ size' # size /\ cash' # cash]_vars

\* two HOLD bars in a row while a position is open: the first executed the
\* order of the bar before it, the second changed nothing
C15_Witness ==
    /\ Len(closes) >= ma2 + 3
    /\ SignalAt(Len(closes)) = "none" /\ SignalAt(Len(closes) - 1) = "none"
    /\ SignalAt(Len(closes) - 2) # "none"
    /\ size # 0
    /\ execs[Len(execs)].t = Len(closes) - 1
    /\ equity[Len(closes)].cash = equity[Len(closes) - 1].cash
    /\ equity[Len(closes) - 1].cash # equity[Len(closes) - 2].cash

-----------------------------------------------------------------------------
(* C16 *)

\* the callers that found no fresh file at their check and made their request
PastRequest == {p \in Callers : callers[p].missed /\ callers[p].pc \in {"dump", "done"}}

\* C16: the check claims nothing.  A caller that found no fresh file goes on
\* to its own request and, on status 200, to its own write, whatever another
\* caller has written since its check: every such caller that is done has
\* fetched (or failed on the status), never taken the file of the other; the
\* number of requests is the number of callers that passed the check that
\* way; and a file exists only once a caller has written it, never from the
\* moment of a check.
C16_CheckDoesNotClaim ==
    /\ \A p \in Callers :
          (callers[p].missed /\ callers[p].pc = "done") =>
              callers[p].outcome \in {"fetched", "ValueError"}
    /\ requests = Cardinality(PastRequest)
    /\ \A k \in Keys :
          cache[k].exists =>
              \E p \in Callers : callers[p].key = k /\ callers[p].outcome = "fetched"
    /\ \A p \in Callers :
          callers[p].outcome = "fetched" => cache[callers[p].key].exists

\* two callers for the same key both passed the check before either wrote:
\* both made the request and both wrote the file, two fetches of one key
\* within one day
C16_Witness ==
    /\ callers[1].key = callers[2].key
    /\ callers[1].outcome = "fetched" /\ callers[2].outcome = "fetched"
    /\ callers[1].missed /\ callers[2].missed
    /\ ~callers[1].found /\ ~callers[2].found
    /\ requests = 2
    /\ IsFresh(cache[callers[1].key], now)

====
